---- MODULE Spec2Model ----
(***************************************************************************)
(* Vent-Engine: the Wayland window backend (crates/vent-window,            *)
(* platform/wayland/mod.rs) and the glTF model loader (crates/vent-assets, *)
(* model/gltf.rs) as state machines.                                       *)
(*                                                                         *)
(*   Spec           the window backend: create_window, poll, close, drop   *)
(*   FairSpec       Spec with the poll loop's progress stated as fairness  *)
(*   LoaderSpec     GLTFLoader::load over a family of documents, with the  *)
(*                  workers of load_mesh_multithreaded interleaved         *)
(*   PrimitiveSpec  GLTFLoader::load_primitive over a family of primitives *)
(*   MaterialSpec   GLTFLoader::load_material over a family of materials   *)
(***************************************************************************)
EXTENDS Integers, Sequences, FiniteSets, TLC

(***************************************************************************)
(* Bounds of the model.                                                    *)
(***************************************************************************)
\* protocol events the compositor emits in one run
MaxEvents == 3
\* serial numbers carried by Configure and Ping events: 1..MaxSerial
MaxSerial == 2
\* scenes of a document
MaxScenes == 2
\* primitives of a mesh
MaxPrims == 2
\* entries of a vertex attribute accessor
MaxLen == 2
\* swapchain images of the VulkanInstance
MaxFrames == 3

VARIABLES
    wpc,        \* position of the window program (create_window, poll, drop)
    globals,    \* the globals the compositor advertises (GlobalList)
    attribs,    \* the WindowAttribs handed to create_window
    state,      \* PlatformWindow.state: the State struct
    inq,        \* events read from the transport, not yet dispatched
    sent,       \* requests issued on the connection, in order
    flushed,    \* how many requests of sent event_queue.flush() has pushed out
    delivered,  \* what the handler was called with in the current poll iteration
    queued,     \* pending_events as dispatch left them in the current iteration
    emitted,    \* number of protocol events the compositor has emitted
    conn_ok,    \* FALSE once the transport has failed
    \* GLTFLoader::load
    lpc,            \* position of load
    instance,       \* the VulkanInstance: what the loader reads of it
    parse,          \* what the document parser does with the file
    doc,            \* the document (scenes, nodes, meshes)
    todo,           \* nodes load_node has still to visit, next first
    cur,            \* the node whose mesh load_mesh_multithreaded is loading
    meshes,         \* the Vec<Mesh3D> load collects
    primitive_len,  \* load_mesh_multithreaded: mesh.primitives().size_hint().0
    worker,         \* the scope's threads, in spawn order
    chan,           \* the sync_channel's buffer
    received,       \* rx.recv() calls that have returned
    \* GLTFLoader::load_primitive
    ppc,            \* position of load_primitive
    primitive,      \* the primitive, as its reader sees it
    vertices,       \* the Vec<Vertex3D> under construction
    loaded,         \* what load_primitive comes to
    \* GLTFLoader::load_material
    tpc,              \* position of load_material
    material,         \* the material, as load_material reads it
    diffuse_texture,  \* the VulkanImage bound as the diffuse texture
    io,               \* the file opens and image decodes done, in order
    uniform_buffers,  \* create_uniform_buffers' Vec<VulkanBuffer>
    descriptor_sets,  \* write_sets' Vec<vk::DescriptorSet>
    updates           \* the batches update_descriptor_sets was called with

wvars == <<wpc, globals, attribs, state, inq, sent, flushed, delivered, queued,
           emitted, conn_ok>>

\* GLTFLoader::load's variables
mvars == <<lpc, instance, parse, doc, todo, cur, meshes, primitive_len, worker, chan,
           received>>

\* GLTFLoader::load_primitive's variables
pvars == <<ppc, primitive, vertices, loaded>>

\* GLTFLoader::load_material's variables
tvars == <<tpc, material, diffuse_texture, io, uniform_buffers, descriptor_sets, updates>>

\* the loader's variables
lvars == <<mvars, pvars, tvars>>

vars == <<wvars, lvars>>

(***************************************************************************)
(* Values.                                                                 *)
(***************************************************************************)
None == "None"
Some == "Some"

GlobalNames == {"wl_compositor", "xdg_wm_base", "wl_seat",
                "zxdg_decoration_manager_v1", "xdg_activation_v1"}

\* WindowAttribs: the fields create_window and init_xdg_surface read
WindowAttribsSet ==
    { [width |-> 8, height |-> 6, mode |-> "Default", max_size |-> None, min_size |-> None],
      [width |-> 4, height |-> 3, mode |-> "FullScreen", max_size |-> Some, min_size |-> Some] }

\* a request on the connection: the request, the object (for bind: the global)
\* it is issued on, and the serial it carries (0: none)
Msg(op, obj, arg) == [op |-> op, obj |-> obj, arg |-> arg]

\* a protocol event; n is its arrival number on the transport
Event(kind, a, b, n) == [kind |-> kind, a |-> a, b |-> b, n |-> n]

Serials == 1..MaxSerial
\* wl_keyboard key codes: 1 is ESC
KeyCodes == {1, 30}
\* wl_keyboard key_state: 0 released, 1 pressed
KeyStates == {0, 1}

\* WindowEvent values the backend hands to the handler; src is the arrival
\* number of the protocol event a queued one was translated from
WindowEvent(kind, src) == [kind |-> kind, src |-> src]
Draw == WindowEvent("Draw", 0)

(***************************************************************************)
(* State { .. } as create_window builds it.                                *)
(***************************************************************************)
NewState(attris) ==
    [ running |-> TRUE,
      width |-> attris.width,
      height |-> attris.height,
      base_surface |-> None,
      buffer |-> None,
      wm_base |-> None,
      xdg_surface |-> None,
      configured |-> FALSE,
      xdg_toplevel_decoration |-> None,
      xdg_decoration_manager |-> None,
      pending_events |-> <<>> ]

(***************************************************************************)
(* The Dispatch implementations: each takes the State and one event and    *)
(* gives the new State and the requests it issued.                         *)
(***************************************************************************)
Handled(s, out) == [state |-> s, out |-> out]

\* a key handler that stops the loop on the press of ESC only
KeyboardEvent_PressOnly(s, e) ==
    IF e.kind = "Key" /\ e.a = 1 /\ e.b = 1
    THEN Handled([s EXCEPT !.running = FALSE], <<>>)
    ELSE Handled(s, <<>>)

\* Dispatch<wl_keyboard::WlKeyboard>
KeyboardEvent(s, e) ==
    IF e.kind = "Key" /\ e.a = 1
    THEN Handled([s EXCEPT !.running = FALSE], <<>>)
    ELSE Handled(s, <<>>)

\* a seat handler that asks for the keyboard at every Capabilities event
SeatEvent_Always(s, e) ==
    IF e.kind = "Capabilities"
    THEN Handled(s, <<Msg("get_keyboard", "wl_seat", 0)>>)
    ELSE Handled(s, <<>>)

\* Dispatch<wl_seat::WlSeat>: a = 1 when the capability set contains Keyboard
SeatEvent(s, e) ==
    IF e.kind = "Capabilities" /\ e.a = 1
    THEN Handled(s, <<Msg("get_keyboard", "wl_seat", 0)>>)
    ELSE Handled(s, <<>>)

\* a ping handler that answers with serial 0
WmBaseEvent_ZeroSerial(s, e) ==
    IF e.kind = "Ping"
    THEN Handled(s, <<Msg("pong", "xdg_wm_base", 0)>>)
    ELSE Handled(s, <<>>)

\* Dispatch<xdg_wm_base::XdgWmBase>
WmBaseEvent(s, e) ==
    IF e.kind = "Ping"
    THEN Handled(s, <<Msg("pong", "xdg_wm_base", e.a)>>)
    ELSE Handled(s, <<>>)

\* a Configure handler that sets configured and sends no ack_configure
XdgSurfaceEvent_NoAck(s, e) ==
    IF e.kind = "Configure"
    THEN Handled([s EXCEPT !.configured = TRUE], <<>>)
    ELSE Handled(s, <<>>)

\* XdgSurfaceEvent acknowledging the first configure only
XdgSurfaceEvent_FirstOnly(s, e) ==
    IF e.kind = "Configure" /\ ~s.configured
    THEN Handled([s EXCEPT !.configured = TRUE],
                 <<Msg("ack_configure", "xdg_surface", e.a)>>)
    ELSE Handled(s, <<>>)

\* Dispatch<xdg_surface::XdgSurface>
XdgSurfaceEvent(s, e) ==
    IF e.kind = "Configure"
    THEN LET s1 == [s EXCEPT !.configured = TRUE]
             ack == <<Msg("ack_configure", "xdg_surface", e.a)>>
         IN  IF s1.buffer # None
             THEN Handled(s1, ack \o <<Msg("attach", "wl_surface", 0), Msg("commit", "wl_surface", 0)>>)
             ELSE Handled(s1, ack)
    ELSE Handled(s, <<>>)

\* Dispatch<xdg_toplevel::XdgToplevel>
XdgToplevelEvent(s, e) ==
    LET s1 == IF e.kind = "Close"
              THEN [s EXCEPT !.pending_events = Append(@, WindowEvent("Close", e.n))]
              ELSE s
        s2 == IF e.kind = "ConfigureBounds"
              THEN [s1 EXCEPT !.width = e.a, !.height = e.b]
              ELSE s1
    IN  Handled(s2, <<>>)

\* the event queue routes an event to the Dispatch impl of its object
DispatchOne(s, e) ==
    CASE e.kind = "Key" -> KeyboardEvent(s, e)
      [] e.kind = "Capabilities" -> SeatEvent(s, e)
      [] e.kind = "Ping" -> WmBaseEvent(s, e)
      [] e.kind = "Configure" -> XdgSurfaceEvent(s, e)
      [] e.kind \in {"Close", "ConfigureBounds", "ToplevelConfigure"} -> XdgToplevelEvent(s, e)

\* event_queue.dispatch_pending(&mut state): every pending event, in order
RECURSIVE DispatchPending(_, _, _)
DispatchPending(s, out, events) ==
    IF events = <<>>
    THEN Handled(s, out)
    ELSE LET h == DispatchOne(s, Head(events))
         IN  DispatchPending(h.state, out \o h.out, Tail(events))

(***************************************************************************)
(* create_window                                                           *)
(***************************************************************************)
WInit ==
    /\ wpc = "start"
    /\ globals \in SUBSET GlobalNames
    /\ attribs \in WindowAttribsSet
    /\ state = NewState(attribs)
    /\ inq = <<>>
    /\ sent = <<>>
    /\ flushed = 0
    /\ delivered = <<>>
    /\ queued = <<>>
    /\ emitted = 0
    /\ conn_ok \in BOOLEAN

\* Connection::connect_to_env().expect(..), State { .. },
\* registry_queue_init(&conn).unwrap()
Connect ==
    /\ wpc = "start"
    /\ wpc' = IF conn_ok THEN "connected" ELSE "panicked"
    /\ UNCHANGED <<globals, attribs, state, inq, sent, flushed, delivered, queued,
                   emitted, conn_ok>>
    /\ UNCHANGED lvars

\* globals.bind::<XdgWmBase>(..).unwrap(); state.wm_base = Some(wm_base)
BindWmBase ==
    /\ wpc = "connected"
    /\ IF "xdg_wm_base" \in globals
       THEN /\ wpc' = "wm_base"
            /\ sent' = Append(sent, Msg("bind", "xdg_wm_base", 0))
            /\ state' = [state EXCEPT !.wm_base = Some]
       ELSE /\ wpc' = "panicked"
            /\ UNCHANGED <<sent, state>>
    /\ UNCHANGED <<globals, attribs, inq, flushed, delivered, queued, emitted, conn_ok>>
    /\ UNCHANGED lvars

\* globals.bind::<WlCompositor>(..).unwrap(); compositor.create_surface(..);
\* state.base_surface = Some(surface)
BindCompositor ==
    /\ wpc = "wm_base"
    /\ IF "wl_compositor" \in globals
       THEN /\ wpc' = "compositor"
            /\ sent' = sent \o <<Msg("bind", "wl_compositor", 0), Msg("create_surface", "wl_compositor", 0)>>
            /\ state' = [state EXCEPT !.base_surface = Some]
       ELSE /\ wpc' = "panicked"
            /\ UNCHANGED <<sent, state>>
    /\ UNCHANGED <<globals, attribs, inq, flushed, delivered, queued, emitted, conn_ok>>
    /\ UNCHANGED lvars

\* globals.bind::<WlSeat>(..).unwrap()
BindSeat ==
    /\ wpc = "compositor"
    /\ IF "wl_seat" \in globals
       THEN /\ wpc' = "seat"
            /\ sent' = Append(sent, Msg("bind", "wl_seat", 0))
       ELSE /\ wpc' = "panicked"
            /\ UNCHANGED sent
    /\ UNCHANGED <<globals, attribs, state, inq, flushed, delivered, queued, emitted,
                   conn_ok>>
    /\ UNCHANGED lvars

\* State::init_xdg_surface: the requests it issues
InitXdgSurfaceMsgs(s, attris) ==
    <<Msg("get_xdg_surface", "xdg_wm_base", 0), Msg("get_toplevel", "xdg_surface", 0),
      Msg("set_title", "xdg_toplevel", 0), Msg("set_app_id", "xdg_toplevel", 0)>>
    \o (CASE attris.mode = "FullScreen" -> <<Msg("set_fullscreen", "xdg_toplevel", 0)>>
          [] attris.mode = "Maximized" -> <<Msg("set_maximized", "xdg_toplevel", 0)>>
          [] attris.mode = "Minimized" -> <<Msg("set_minimized", "xdg_toplevel", 0)>>
          [] OTHER -> <<>>)
    \o (IF attris.max_size # None THEN <<Msg("set_max_size", "xdg_toplevel", 0)>> ELSE <<>>)
    \o (IF attris.min_size # None THEN <<Msg("set_min_size", "xdg_toplevel", 0)>> ELSE <<>>)
    \o (IF s.xdg_decoration_manager # None
        THEN <<Msg("get_toplevel_decoration", "zxdg_decoration_manager_v1", 0), Msg("set_mode", "zxdg_toplevel_decoration_v1", 0)>>
        ELSE <<>>)

\* if state.wm_base.is_some() && state.xdg_surface.is_none()
\*     { state.init_xdg_surface(&qhandle, attribs) }
InitXdgSurface ==
    /\ wpc = "seat"
    /\ wpc' = "xdg_surface"
    /\ IF state.wm_base # None /\ state.xdg_surface = None
       THEN /\ sent' = sent \o InitXdgSurfaceMsgs(state, attribs)
            /\ state' = [state EXCEPT
                           !.xdg_toplevel_decoration =
                               IF state.xdg_decoration_manager # None THEN Some ELSE @,
                           !.xdg_surface = Some]
       ELSE UNCHANGED <<sent, state>>
    /\ UNCHANGED <<globals, attribs, inq, flushed, delivered, queued, emitted, conn_ok>>
    /\ UNCHANGED lvars

\* the initial commit made with a buffer attached
InitialCommitMsgs_Attached ==
    <<Msg("attach", "wl_surface", 0), Msg("commit", "wl_surface", 0)>>

\* state.base_surface.as_ref().unwrap().commit(): the requests it issues
InitialCommitMsgs == <<Msg("commit", "wl_surface", 0)>>

InitialCommit ==
    /\ wpc = "xdg_surface"
    /\ wpc' = "committed"
    /\ sent' = sent \o InitialCommitMsgs
    /\ UNCHANGED <<globals, attribs, state, inq, flushed, delivered, queued, emitted,
                   conn_ok>>
    /\ UNCHANGED lvars

\* globals.bind::<XdgActivationV1>(..).unwrap();
\* state.init_xdg_activation(&qhandle, xdg_activation); PlatformWindow { .. }
BindActivation ==
    /\ wpc = "committed"
    /\ IF "xdg_activation_v1" \in globals
       THEN /\ wpc' = "created"
            /\ sent' = sent \o <<Msg("bind", "xdg_activation_v1", 0),
                                 Msg("get_activation_token", "xdg_activation_v1", 0),
                                 Msg("set_app_id", "xdg_activation_token_v1", 0),
                                 Msg("set_surface", "xdg_activation_token_v1", 0)>>
       ELSE /\ wpc' = "panicked"
            /\ UNCHANGED sent
    /\ UNCHANGED <<globals, attribs, state, inq, flushed, delivered, queued, emitted,
                   conn_ok>>
    /\ UNCHANGED lvars

(***************************************************************************)
(* PlatformWindow::close and Drop                                          *)
(***************************************************************************)
\* close(&mut self) on a window its owner still holds:
\* event_queue.flush().expect(..); state.running = false
Close ==
    /\ wpc = "created"
    /\ IF conn_ok
       THEN /\ flushed' = Len(sent)
            /\ state' = [state EXCEPT !.running = FALSE]
            /\ wpc' = wpc
       ELSE /\ wpc' = "unwinding"
            /\ UNCHANGED <<flushed, state>>
    /\ UNCHANGED <<globals, attribs, inq, sent, delivered, queued, emitted, conn_ok>>
    /\ UNCHANGED lvars

\* Drop::drop: self.close(), then the fields (connection, event queue) go.
\* The window is dropped by its owner, at the end of poll(self), or while a
\* panic unwinds; a panic of close() during unwinding aborts the process.
Drop ==
    /\ wpc \in {"created", "poll_exit", "unwinding"}
    /\ IF conn_ok
       THEN /\ flushed' = Len(sent)
            /\ state' = [state EXCEPT !.running = FALSE]
            /\ wpc' = IF wpc = "unwinding" THEN "panicked" ELSE "released"
       ELSE /\ wpc' = IF wpc = "unwinding" THEN "aborted" ELSE "panicked"
            /\ UNCHANGED <<flushed, state>>
    /\ UNCHANGED <<globals, attribs, inq, sent, delivered, queued, emitted, conn_ok>>
    /\ UNCHANGED lvars

(***************************************************************************)
(* PlatformWindow::poll                                                    *)
(***************************************************************************)
\* poll(mut self, event_handler): the window moves into the call
PollEnter ==
    /\ wpc = "created"
    /\ wpc' = "poll_check"
    /\ UNCHANGED <<globals, attribs, state, inq, sent, flushed, delivered, queued,
                   emitted, conn_ok>>
    /\ UNCHANGED lvars

\* while self.state.running
PollCheck ==
    /\ wpc = "poll_check"
    /\ wpc' = IF state.running THEN "dispatch" ELSE "poll_exit"
    /\ delivered' = <<>>
    /\ queued' = <<>>
    /\ UNCHANGED <<globals, attribs, state, inq, sent, flushed, emitted, conn_ok>>
    /\ UNCHANGED lvars

\* self.event_queue.dispatch_pending(&mut self.state).expect(..)
PollDispatch ==
    /\ wpc = "dispatch"
    /\ IF conn_ok
       THEN LET h == DispatchPending(state, <<>>, inq)
            IN  /\ state' = h.state
                /\ sent' = sent \o h.out
                /\ queued' = h.state.pending_events
                /\ inq' = <<>>
                /\ wpc' = "flush"
       ELSE /\ wpc' = "unwinding"
            /\ UNCHANGED <<state, sent, queued, inq>>
    /\ UNCHANGED <<globals, attribs, flushed, delivered, emitted, conn_ok>>
    /\ UNCHANGED lvars

\* a drain that takes the events from the back (pop)
DrainNext_Pop(pending) ==
    [event |-> pending[Len(pending)], rest |-> SubSeq(pending, 1, Len(pending) - 1)]

\* self.state.pending_events.drain(..).for_each(&mut event_handler): the next
\* event of the drain and what is left to drain
DrainNext(pending) == [event |-> Head(pending), rest |-> Tail(pending)]

PollDeliver ==
    /\ wpc = "flush"
    /\ state.pending_events # <<>>
    /\ LET d == DrainNext(state.pending_events)
       IN  /\ delivered' = Append(delivered, d.event)
           /\ state' = [state EXCEPT !.pending_events = d.rest]
    /\ UNCHANGED <<wpc, globals, attribs, inq, sent, flushed, queued, emitted, conn_ok>>
    /\ UNCHANGED lvars

\* event_handler(WindowEvent::Draw), the end of the loop body
PollDraw ==
    /\ wpc = "flush"
    /\ state.pending_events = <<>>
    /\ delivered' = Append(delivered, Draw)
    /\ wpc' = "poll_check"
    /\ UNCHANGED <<globals, attribs, state, inq, sent, flushed, queued, emitted, conn_ok>>
    /\ UNCHANGED lvars

(***************************************************************************)
(* The compositor and the transport.                                       *)
(***************************************************************************)
HasSent(op) == \E i \in 1..Len(sent) : sent[i].op = op
HasBound(g) == \E i \in 1..Len(sent) : sent[i].op = "bind" /\ sent[i].obj = g

\* An event is emitted on an object the client has created. dispatch_pending
\* is the one place that looks at the events, so an event enters the model as
\* the next dispatch_pending is about to run, whenever it was sent.
Emit(kind, a, b) ==
    /\ wpc = "dispatch"
    /\ conn_ok
    /\ emitted < MaxEvents
    /\ emitted' = emitted + 1
    /\ inq' = Append(inq, Event(kind, a, b, emitted + 1))
    /\ UNCHANGED <<wpc, globals, attribs, state, sent, flushed, delivered, queued,
                   conn_ok>>
    /\ UNCHANGED lvars

\* xdg_surface.configure, sent once the surface has been committed
EmitConfigure == \E s \in Serials : HasSent("commit") /\ Emit("Configure", s, 0)

\* xdg_toplevel.close, .configure_bounds and .configure
EmitClose == HasSent("get_toplevel") /\ Emit("Close", 0, 0)
EmitConfigureBounds == HasSent("get_toplevel") /\ Emit("ConfigureBounds", 5, 4)
EmitToplevelConfigure == HasSent("get_toplevel") /\ Emit("ToplevelConfigure", 0, 0)

\* xdg_wm_base.ping
EmitPing == \E s \in Serials : HasBound("xdg_wm_base") /\ Emit("Ping", s, 0)

\* wl_seat.capabilities, with and without the keyboard capability
EmitCapabilities == \E k \in {0, 1} : HasBound("wl_seat") /\ Emit("Capabilities", k, 0)

\* wl_keyboard.key, on a keyboard the client has asked for
EmitKey ==
    \E k \in KeyCodes, ks \in KeyStates : HasSent("get_keyboard") /\ Emit("Key", k, ks)

\* The handler panics in a call of the drain or in the call with Draw: the
\* call was made, the Drain drops what it has not handed over, and the panic
\* unwinds poll.
HandlerPanic ==
    /\ wpc = "flush"
    /\ delivered' = Append(delivered,
                           IF state.pending_events # <<>>
                           THEN DrainNext(state.pending_events).event
                           ELSE Draw)
    /\ state' = [state EXCEPT !.pending_events = <<>>]
    /\ wpc' = "unwinding"
    /\ UNCHANGED <<globals, attribs, inq, sent, flushed, queued, emitted, conn_ok>>
    /\ UNCHANGED lvars

\* The transport fails: dispatch_pending and flush return Err from now on.
\* They are the two calls that see the failure, so it enters the model ahead
\* of one of them.
TransportFail ==
    /\ wpc \in {"created", "dispatch", "poll_exit"}
    /\ conn_ok
    /\ conn_ok' = FALSE
    /\ UNCHANGED <<wpc, globals, attribs, state, inq, sent, flushed, delivered, queued,
                   emitted>>
    /\ UNCHANGED lvars

(***************************************************************************)
(* The loader's values.                                                    *)
(***************************************************************************)
\* sequences over S of length at most n
SeqsUpTo(S, n) == UNION {[1..k -> S] : k \in 0..n}

\* an accessor of a primitive (Option of its entries), and a result or panic
NoneAcc == [some |-> FALSE, v |-> <<>>]
SomeAcc(entries) == [some |-> TRUE, v |-> entries]
Ok(value) == [ok |-> TRUE, value |-> value, panic |-> ""]
Panic(what) == [ok |-> FALSE, value |-> <<>>, panic |-> what]

\* Vertex3D
Vertex3D(position, tex_coord, normal) ==
    [position |-> position, tex_coord |-> tex_coord, normal |-> normal]

\* Default::default() of [f32; 2] and [f32; 3]
DefaultTexCoord == <<0, 0>>
DefaultNormal == <<0, 0, 0>>

\* gltf::Material: the base colour texture's source (None, View, Uri), the
\* declared mime type (None, a known one, one the image crate does not know),
\* whether the file opens and whether the bytes decode, and the sampler's
\* min_filter
Material(texture, mime_type, readable, decodable, min_filter) ==
    [texture |-> texture, mime_type |-> mime_type, readable |-> readable,
     decodable |-> decodable, min_filter |-> min_filter]

MaterialUntextured == Material("None", "None", TRUE, TRUE, "None")
MaterialUri == Material("Uri", "image/png", TRUE, TRUE, "Linear")
MaterialUndecodable == Material("View", "image/png", TRUE, FALSE, "None")

\* gltf::Primitive, as primitive.reader(..) and primitive.material() show it
Primitive(positions, normals, tex_coords, indices, mat) ==
    [positions |-> positions, normals |-> normals, tex_coords |-> tex_coords,
     indices |-> indices, material |-> mat]

(***************************************************************************)
(* GLTFLoader::load_material                                               *)
(***************************************************************************)
\* a placeholder of another extent
PlaceholderImage_Small ==
    [source |-> "color", rgba |-> <<255, 255, 255, 255>>, extent |-> <<64, 64>>,
     sampler |-> "default"]

\* VulkanImage::from_color(.., [255, 255, 255, 255], Extent2D { 128, 128 })
PlaceholderImage ==
    [source |-> "color", rgba |-> <<255, 255, 255, 255>>, extent |-> <<128, 128>>,
     sampler |-> "default"]

\* VulkanImage::from_image(.., image, .., sampler)
DecodedImage(sampler) ==
    [source |-> "image", rgba |-> <<>>, extent |-> <<>>, sampler |-> sampler]

\* convert_sampler: unimplemented!() for a min_filter outside its match arms
ConvertSampler(mat) ==
    IF mat.min_filter = "NearestMipmapLinear"
    THEN Panic("unimplemented")
    ELSE Ok("converted")

\* the diffuse texture: decoded from a view or a file, else the placeholder
DiffuseTexture(mat) ==
    CASE mat.texture = "View" ->
            IF mat.mime_type \notin {"image/png"}
            THEN Panic("expect: ImageFormat::from_mime_type")
            ELSE IF ~mat.decodable
            THEN Panic("unwrap: load_from_memory_with_format")
            ELSE Ok(DecodedImage("default"))
      [] mat.texture = "Uri" ->
            IF ~ConvertSampler(mat).ok
            THEN ConvertSampler(mat)
            ELSE IF mat.mime_type # "None"
            THEN IF ~mat.readable
                 THEN Panic("unwrap: File::open")
                 ELSE IF mat.mime_type \notin {"image/png"}
                 THEN Panic("expect: ImageFormat::from_mime_type")
                 ELSE IF ~mat.decodable
                 THEN Panic("unwrap: image::load")
                 ELSE Ok(DecodedImage("converted"))
            ELSE IF ~mat.readable \/ ~mat.decodable
                 THEN Panic("unwrap: image::open")
                 ELSE Ok(DecodedImage("converted"))
      [] OTHER -> Ok(PlaceholderImage)

\* create_uniform_buffers, with one buffer whatever the swapchain
CreateUniformBuffers_One(inst) == <<[buffer |-> 1]>>

\* create_uniform_buffers: one buffer per swapchain image
CreateUniformBuffers(inst) == [i \in 1..inst.swapchain_images |-> [buffer |-> i]]

\* write_sets: allocate_descriptor_sets(.., uniforms_buffers.len())
WriteSets(inst, texture, uniforms_buffers) ==
    [i \in 1..Len(uniforms_buffers) |-> [set |-> i]]

\* load_material: the descriptor sets, or the panic of a failed texture load
LoadMaterial(inst, mat) ==
    LET texture == DiffuseTexture(mat)
    IN  IF ~texture.ok
        THEN texture
        ELSE Ok(WriteSets(inst, texture.value, CreateUniformBuffers(inst)))

(***************************************************************************)
(* GLTFLoader::load_primitive                                              *)
(***************************************************************************)
\* reader.read_positions().unwrap().map(|position| Vertex3D { .. }).collect(),
\* without the first position
ReadPositions_SkipFirst(prim) ==
    IF ~prim.positions.some
    THEN Panic("unwrap: read_positions")
    ELSE Ok([i \in 1..(Len(prim.positions.v) - 1) |->
                Vertex3D(prim.positions.v[i + 1], DefaultTexCoord, DefaultNormal)])

\* reader.read_positions().unwrap().map(|position| Vertex3D { .. }).collect()
ReadPositions(prim) ==
    IF ~prim.positions.some
    THEN Panic("unwrap: read_positions")
    ELSE Ok([i \in 1..Len(prim.positions.v) |->
                Vertex3D(prim.positions.v[i], DefaultTexCoord, DefaultNormal)])

\* an overlay that zips the vertices with the normals and keeps the pairs
OverlayNormals_Zip(verts, prim) ==
    IF ~prim.normals.some
    THEN Ok(verts)
    ELSE IF Len(prim.normals.v) > Len(verts)
    THEN Panic("index out of bounds: vertices[normal_index]")
    ELSE Ok([i \in 1..Len(prim.normals.v) |->
                [verts[i] EXCEPT !.normal = prim.normals.v[i]]])

\* for (normal_index, normal) in normal_attribute.enumerate()
\*     { vertices[normal_index].normal = normal }
OverlayNormals(verts, prim) ==
    IF ~prim.normals.some
    THEN Ok(verts)
    ELSE IF Len(prim.normals.v) > Len(verts)
    THEN Panic("index out of bounds: vertices[normal_index]")
    ELSE Ok([i \in 1..Len(verts) |->
                IF i <= Len(prim.normals.v)
                THEN [verts[i] EXCEPT !.normal = prim.normals.v[i]]
                ELSE verts[i]])

\* for (tex_coord_index, tex_coord) in tex_coord_attribute.enumerate()
\*     { vertices[tex_coord_index].tex_coord = tex_coord }
OverlayTexCoords(verts, prim) ==
    IF ~prim.tex_coords.some
    THEN Ok(verts)
    ELSE IF Len(prim.tex_coords.v) > Len(verts)
    THEN Panic("index out of bounds: vertices[tex_coord_index]")
    ELSE Ok([i \in 1..Len(verts) |->
                IF i <= Len(prim.tex_coords.v)
                THEN [verts[i] EXCEPT !.tex_coord = prim.tex_coords.v[i]]
                ELSE verts[i]])

\* reader.read_indices().unwrap().into_u32().collect()
ReadIndices(prim) ==
    IF ~prim.indices.some
    THEN Panic("unwrap: read_indices")
    ELSE Ok(prim.indices.v)

\* Mesh3D::new(.., &vertices, &indices, Some(bind_group), name)
Mesh3D(verts, indices, bind_group, name) ==
    [vertices |-> verts, indices |-> indices, bind_group |-> bind_group, name |-> name]

\* load_primitive: the Mesh3D, or the panic of the first step that fails
LoadPrimitive(bind_group, name, prim) ==
    LET v0 == ReadPositions(prim)
        v1 == IF v0.ok THEN OverlayNormals(v0.value, prim) ELSE v0
        v2 == IF v1.ok THEN OverlayTexCoords(v1.value, prim) ELSE v1
        ix == IF v2.ok THEN ReadIndices(prim) ELSE v2
    IN  IF ix.ok THEN Ok(Mesh3D(v2.value, ix.value, bind_group, name)) ELSE ix

\* the closure of a worker thread, up to its tx.send: load_material, then
\* load_primitive with the descriptor sets
WorkerBody(inst, name, prim) ==
    LET loaded_material == LoadMaterial(inst, prim.material)
    IN  IF ~loaded_material.ok
        THEN loaded_material
        ELSE LoadPrimitive(loaded_material.value, name, prim)

(***************************************************************************)
(* Documents.                                                              *)
(***************************************************************************)
NodeIds == {1, 2, 3}

\* the elements of a set of numbers, in increasing order
RECURSIVE Ascending(_)
Ascending(S) ==
    IF S = {} THEN <<>>
    ELSE LET m == CHOOSE x \in S : \A y \in S : x <= y
         IN  <<m>> \o Ascending(S \ {m})

\* node hierarchies (children of each node, in order) with their root nodes:
\* a child beside a second root, two children of one root, a chain
Hierarchies ==
    { [children |-> <<(<<2>>), (<<>>), (<<>>)>>, roots |-> {1, 3}],
      [children |-> <<(<<2, 3>>), (<<>>), (<<>>)>>, roots |-> {1}],
      [children |-> <<(<<2>>), (<<3>>), (<<>>)>>, roots |-> {1}] }

\* primitives whose load succeeds
PrimitiveA ==
    Primitive(SomeAcc(<<(<<1, 0, 0>>), (<<0, 2, 0>>)>>), NoneAcc, NoneAcc,
              SomeAcc(<<0, 1>>), MaterialUntextured)
PrimitiveB ==
    Primitive(SomeAcc(<<(<<0, 2, 0>>)>>), SomeAcc(<<(<<0, 0, 1>>)>>),
              SomeAcc(<<(<<1, 1>>)>>), SomeAcc(<<0>>), MaterialUri)
\* primitives whose load fails: no POSITION accessor, no indices, a texture
\* that does not decode
PrimitiveNoPositions == [PrimitiveA EXCEPT !.positions = NoneAcc]
PrimitiveNoIndices == [PrimitiveA EXCEPT !.indices = NoneAcc]
PrimitiveBadTexture == [PrimitiveA EXCEPT !.material = MaterialUndecodable]

PrimitiveKinds == {PrimitiveA, PrimitiveB, PrimitiveNoPositions, PrimitiveNoIndices,
                   PrimitiveBadTexture}

\* a document: scenes (each the list of its root nodes), per node its children
\* and the index of its mesh (0: none), and the meshes (each the list of its
\* primitives; a mesh's name is its index)
Document(scenes, children, node_mesh, mesh_table) ==
    [scenes |-> scenes, children |-> children, node_mesh |-> node_mesh,
     meshes |-> mesh_table]

\* k primitives like PrimitiveA, the last without positions if bad
UniformMesh(k, bad) ==
    [i \in 1..k |-> IF bad /\ i = k THEN PrimitiveNoPositions ELSE PrimitiveA]

\* documents that vary the scene graph: every hierarchy, every choice of roots
\* for each of MaxScenes scenes, every assignment of the two meshes to nodes;
\* the first mesh has no primitive or MaxPrims of them
GraphDocuments ==
    UNION { { Document([i \in 1..MaxScenes |-> Ascending(sc[i])], h.children, nm,
                       <<m, <<PrimitiveB>>>>) :
                sc \in [1..MaxScenes -> SUBSET h.roots],
                nm \in [NodeIds -> 0..2],
                m \in {<<>>, UniformMesh(MaxPrims, FALSE), UniformMesh(MaxPrims, TRUE)} } :
            h \in Hierarchies }

\* documents that vary one mesh: one scene, one node, every list of up to
\* MaxPrims primitives
MeshDocuments ==
    { Document(<<(<<1>>)>>, <<(<<>>), (<<>>), (<<>>)>>, <<1, 0, 0>>, <<m, <<PrimitiveB>>>>) :
        m \in SeqsUpTo(PrimitiveKinds, MaxPrims) }

Documents == GraphDocuments \cup MeshDocuments

\* what the parser (File::open, Gltf::from_reader, import_buffers) comes to
ParseOutcomes == {"ok", "open failed", "malformed", "buffer unreadable"}

(***************************************************************************)
(* GLTFLoader::load, load_node and load_mesh_multithreaded                 *)
(***************************************************************************)
\* the window backend before create_window
WIdle ==
    /\ wpc = "idle"
    /\ globals = {}
    /\ attribs = CHOOSE a \in WindowAttribsSet : a.mode = "Default"
    /\ state = NewState(attribs)
    /\ inq = <<>>
    /\ sent = <<>>
    /\ flushed = 0
    /\ delivered = <<>>
    /\ queued = <<>>
    /\ emitted = 0
    /\ conn_ok = TRUE

\* no VulkanImage
NoImage == [source |-> "none", rgba |-> <<>>, extent |-> <<>>, sampler |-> "none"]

\* load_material before it is called
TIdle ==
    /\ tpc = "idle"
    /\ material = MaterialUntextured
    /\ diffuse_texture = NoImage
    /\ io = <<>>
    /\ uniform_buffers = <<>>
    /\ descriptor_sets = <<>>
    /\ updates = <<>>

\* load_primitive has not returned
NotReturned == [ok |-> FALSE, value |-> <<>>, panic |-> ""]

\* load_primitive before it is called
PIdle ==
    /\ ppc = "idle"
    /\ primitive = PrimitiveA
    /\ vertices = <<>>
    /\ loaded = NotReturned

\* the VulkanInstance the loader is given
VulkanInstance == [swapchain_images |-> MaxFrames]

\* no document: nothing was parsed
NoDocument == Document(<<>>, <<(<<>>), (<<>>), (<<>>)>>, <<0, 0, 0>>, <<(<<>>), (<<>>)>>)

\* the loader before load is called
MIdle ==
    /\ lpc = "idle"
    /\ instance = VulkanInstance
    /\ parse = "ok"
    /\ doc = NoDocument
    /\ todo = <<>>
    /\ cur = 0
    /\ meshes = <<>>
    /\ primitive_len = 0
    /\ worker = <<>>
    /\ chan = <<>>
    /\ received = 0

LIdle == MIdle /\ PIdle /\ TIdle

\* load is called with a path: what is at the path, and what parsing it gives
MInit ==
    /\ lpc = "start"
    /\ instance = VulkanInstance
    /\ parse \in ParseOutcomes
    /\ doc \in IF parse = "ok" THEN Documents ELSE {NoDocument}
    /\ todo = <<>>
    /\ cur = 0
    /\ meshes = <<>>
    /\ primitive_len = 0
    /\ worker = <<>>
    /\ chan = <<>>
    /\ received = 0

\* the concatenation of a sequence of sequences, last first
RECURSIVE Flatten_Reversed(_)
Flatten_Reversed(seqs) ==
    IF seqs = <<>> THEN <<>> ELSE Flatten_Reversed(Tail(seqs)) \o Head(seqs)

\* a concatenation that lists every element once
RECURSIVE Flatten_Distinct(_)
Flatten_Distinct(seqs) ==
    IF seqs = <<>> THEN <<>>
    ELSE LET rest == Flatten_Distinct(Tail(seqs))
         IN  SelectSeq(Head(seqs), LAMBDA n : \A k \in DOMAIN rest : rest[k] # n) \o rest

\* the concatenation of a sequence of sequences
RECURSIVE Flatten(_)
Flatten(seqs) == IF seqs = <<>> THEN <<>> ELSE Head(seqs) \o Flatten(Tail(seqs))

\* node.children(), cut off
Children_None(d, n) == <<>>

\* node.children()
Children(d, n) == d.children[n]

\* mesh.primitives()
Primitives(d, n) == d.meshes[d.node_mesh[n]]

\* mesh.primitives().size_hint().0: the iterator's length is exact
SizeHint(prims) == Len(prims)

\* sync_channel(primitive_len), one slot short
ChannelCapacity_Short(len) == IF len > 0 THEN len - 1 ELSE 0

\* sync_channel(primitive_len): the channel's bound
ChannelCapacity(len) == len

\* for _ in 0..primitive_len, one iteration short
RecvCount_Short(len) == IF len > 0 THEN len - 1 ELSE 0

\* for _ in 0..primitive_len: the number of rx.recv()
RecvCount(len) == len

\* File::open(path).unwrap(), Gltf::from_reader(..).unwrap(),
\* import_buffers(..).expect(..); then doc.scenes().for_each(scene.nodes()..)
\* has the root nodes of the scenes to load, in order
LoadStart ==
    /\ lpc = "start"
    /\ IF parse # "ok"
       THEN /\ lpc' = "panicked"
            /\ todo' = todo
       ELSE /\ lpc' = "traverse"
            /\ todo' = Flatten(doc.scenes)
    /\ UNCHANGED <<instance, parse, doc, cur, meshes, primitive_len, worker, chan,
                   received>>
    /\ UNCHANGED <<wvars, pvars, tvars>>

\* load_node of the next node: without a mesh it goes on to the children;
\* with one it enters load_mesh_multithreaded, up to thread::scope
LoadNode ==
    /\ lpc = "traverse"
    /\ todo # <<>>
    /\ LET node == Head(todo)
       IN  IF doc.node_mesh[node] = 0
           THEN /\ todo' = Children(doc, node) \o Tail(todo)
                /\ UNCHANGED <<lpc, cur, primitive_len, worker, chan, received>>
           ELSE /\ cur' = node
                /\ primitive_len' = SizeHint(Primitives(doc, node))
                /\ chan' = <<>>
                /\ worker' = [i \in DOMAIN Primitives(doc, node) |-> "unspawned"]
                /\ received' = 0
                /\ lpc' = "scope"
                /\ todo' = todo
    /\ UNCHANGED <<instance, parse, doc, meshes>>
    /\ UNCHANGED <<wvars, pvars, tvars>>

\* for primitive in mesh.primitives() { s.spawn(..) }
Spawn ==
    /\ lpc = "scope"
    /\ \E i \in DOMAIN worker :
        /\ worker[i] = "unspawned"
        /\ \A j \in 1..(i - 1) : worker[j] # "unspawned"
        /\ worker' = [worker EXCEPT ![i] = "running"]
    /\ UNCHANGED <<lpc, instance, parse, doc, todo, cur, meshes, primitive_len, chan,
                   received>>
    /\ UNCHANGED <<wvars, pvars, tvars>>

\* a worker: load_material and load_primitive; a panic ends the thread
WorkerLoad(i) ==
    /\ lpc = "scope"
    /\ worker[i] = "running"
    /\ worker' = [worker EXCEPT ![i] =
                    IF WorkerBody(instance, doc.node_mesh[cur], Primitives(doc, cur)[i]).ok
                    THEN "sending" ELSE "panicked"]
    /\ UNCHANGED <<lpc, instance, parse, doc, todo, cur, meshes, primitive_len, chan,
                   received>>
    /\ UNCHANGED <<wvars, pvars, tvars>>

\* a worker: tx.send(loaded_mesh).unwrap(), which waits while the channel is full
WorkerSend(i) ==
    /\ lpc = "scope"
    /\ worker[i] = "sending"
    /\ Len(chan) < ChannelCapacity(primitive_len)
    /\ chan' = Append(chan,
                      WorkerBody(instance, doc.node_mesh[cur], Primitives(doc, cur)[i]).value)
    /\ worker' = [worker EXCEPT ![i] = "done"]
    /\ UNCHANGED <<lpc, instance, parse, doc, todo, cur, meshes, primitive_len, received>>
    /\ UNCHANGED <<wvars, pvars, tvars>>

\* a scope that ends once every thread is spawned, joining none
ScopeJoin_Detached ==
    /\ lpc = "scope"
    /\ \A i \in DOMAIN worker : worker[i] # "unspawned"
    /\ lpc' = "recv"
    /\ UNCHANGED <<instance, parse, doc, todo, cur, meshes, primitive_len, worker, chan,
                   received>>
    /\ UNCHANGED <<wvars, pvars, tvars>>

\* the end of thread::scope: every thread is spawned and joined; the scope
\* panics if one of them panicked
ScopeJoin ==
    /\ lpc = "scope"
    /\ \A i \in DOMAIN worker : worker[i] \in {"done", "panicked"}
    /\ lpc' = IF \E i \in DOMAIN worker : worker[i] = "panicked" THEN "panicked" ELSE "recv"
    /\ UNCHANGED <<instance, parse, doc, todo, cur, meshes, primitive_len, worker, chan,
                   received>>
    /\ UNCHANGED <<wvars, pvars, tvars>>

\* a receive that takes the newest message of the channel
Recv_Newest ==
    /\ lpc = "recv"
    /\ received < RecvCount(primitive_len)
    /\ chan # <<>>
    /\ meshes' = Append(meshes, chan[Len(chan)])
    /\ chan' = SubSeq(chan, 1, Len(chan) - 1)
    /\ received' = received + 1
    /\ UNCHANGED <<lpc, instance, parse, doc, todo, cur, primitive_len, worker>>
    /\ UNCHANGED <<wvars, pvars, tvars>>

\* let mesh = rx.recv().unwrap(); meshes.push(mesh): waits while the channel
\* is empty (tx is alive until the function returns)
Recv ==
    /\ lpc = "recv"
    /\ received < RecvCount(primitive_len)
    /\ chan # <<>>
    /\ meshes' = Append(meshes, Head(chan))
    /\ chan' = Tail(chan)
    /\ received' = received + 1
    /\ UNCHANGED <<lpc, instance, parse, doc, todo, cur, primitive_len, worker>>
    /\ UNCHANGED <<wvars, pvars, tvars>>

\* the receive loop is over: load_mesh_multithreaded returns to load_node
MeshReturn ==
    /\ lpc = "recv"
    /\ received >= RecvCount(primitive_len)
    /\ lpc' = "children"
    /\ UNCHANGED <<instance, parse, doc, todo, cur, meshes, primitive_len, worker, chan,
                   received>>
    /\ UNCHANGED <<wvars, pvars, tvars>>

\* node.children().for_each(load_node) of a node with a mesh
LoadNodeChildren ==
    /\ lpc = "children"
    /\ todo' = Children(doc, cur) \o Tail(todo)
    /\ lpc' = "traverse"
    /\ UNCHANGED <<instance, parse, doc, cur, meshes, primitive_len, worker, chan,
                   received>>
    /\ UNCHANGED <<wvars, pvars, tvars>>

\* Ok(Model3D { meshes })
LoadReturn ==
    /\ lpc = "traverse"
    /\ todo = <<>>
    /\ lpc' = "returned"
    /\ UNCHANGED <<instance, parse, doc, todo, cur, meshes, primitive_len, worker, chan,
                   received>>
    /\ UNCHANGED <<wvars, pvars, tvars>>

LoaderInit == WIdle /\ MInit /\ PIdle /\ TIdle

LoaderNext ==
    \/ LoadStart
    \/ LoadNode
    \/ Spawn
    \/ \E i \in DOMAIN worker : WorkerLoad(i)
    \/ \E i \in DOMAIN worker : WorkerSend(i)
    \/ ScopeJoin
    \/ Recv
    \/ MeshReturn
    \/ LoadNodeChildren
    \/ LoadReturn

LoaderSpec == LoaderInit /\ [][LoaderNext]_vars

(***************************************************************************)
(* GLTFLoader::load_primitive, step by step                                *)
(***************************************************************************)
\* the entries of each accessor, the entry at each index unlike the others
PositionEntries == [i \in 1..MaxLen |-> <<i, 0, 0>>]
NormalEntries == [i \in 1..MaxLen |-> <<0, 0, i>>]
TexCoordEntries == [i \in 1..MaxLen |-> <<i, i>>]
IndexEntries == [i \in 1..MaxLen |-> i - 1]

\* the accessors a primitive may have: absent, or the first len entries
Accessors(entries) ==
    {NoneAcc} \cup {SomeAcc(SubSeq(entries, 1, len)) : len \in 0..Len(entries)}

\* load_primitive is called with a primitive, after its load_material
PInit ==
    /\ ppc = "positions"
    /\ primitive \in { Primitive(p, n, t, ix, MaterialUntextured) :
                         p \in Accessors(PositionEntries), n \in Accessors(NormalEntries),
                         t \in Accessors(TexCoordEntries), ix \in Accessors(IndexEntries) }
    /\ vertices = <<>>
    /\ loaded = NotReturned

\* let mut vertices = reader.read_positions().unwrap().map(..).collect()
PrimitivePositions ==
    /\ ppc = "positions"
    /\ LET r == ReadPositions(primitive)
       IN  IF r.ok
           THEN /\ vertices' = r.value
                /\ ppc' = "normals"
                /\ loaded' = loaded
           ELSE /\ vertices' = vertices
                /\ ppc' = "panicked"
                /\ loaded' = r
    /\ UNCHANGED primitive
    /\ UNCHANGED <<wvars, mvars, tvars>>

\* if let Some(normal_attribute) = reader.read_normals() { .. }
PrimitiveNormals ==
    /\ ppc = "normals"
    /\ LET r == OverlayNormals(vertices, primitive)
       IN  IF r.ok
           THEN /\ vertices' = r.value
                /\ ppc' = "tex_coords"
                /\ loaded' = loaded
           ELSE /\ vertices' = vertices
                /\ ppc' = "panicked"
                /\ loaded' = r
    /\ UNCHANGED primitive
    /\ UNCHANGED <<wvars, mvars, tvars>>

\* if let Some(tex_coord_attribute) = reader.read_tex_coords(0) { .. }
PrimitiveTexCoords ==
    /\ ppc = "tex_coords"
    /\ LET r == OverlayTexCoords(vertices, primitive)
       IN  IF r.ok
           THEN /\ vertices' = r.value
                /\ ppc' = "indices"
                /\ loaded' = loaded
           ELSE /\ vertices' = vertices
                /\ ppc' = "panicked"
                /\ loaded' = r
    /\ UNCHANGED primitive
    /\ UNCHANGED <<wvars, mvars, tvars>>

\* let indices = reader.read_indices().unwrap()..; Mesh3D::new(..)
PrimitiveIndices ==
    /\ ppc = "indices"
    /\ LET r == ReadIndices(primitive)
       IN  IF r.ok
           THEN /\ ppc' = "returned"
                /\ loaded' = Ok(Mesh3D(vertices, r.value,
                                       LoadMaterial(VulkanInstance, primitive.material).value,
                                       1))
           ELSE /\ ppc' = "panicked"
                /\ loaded' = r
    /\ UNCHANGED <<primitive, vertices>>
    /\ UNCHANGED <<wvars, mvars, tvars>>

PrimitiveInit == WIdle /\ MIdle /\ PInit /\ TIdle

PrimitiveNext ==
    \/ PrimitivePositions
    \/ PrimitiveNormals
    \/ PrimitiveTexCoords
    \/ PrimitiveIndices

PrimitiveSpec == PrimitiveInit /\ [][PrimitiveNext]_vars

(***************************************************************************)
(* GLTFLoader::load_material, create_uniform_buffers and write_sets, step  *)
(* by step                                                                 *)
(***************************************************************************)
\* the materials: every texture source, mime type, file and sampler (a View
\* always declares a mime type)
Materials ==
    { m \in { Material(t, mt, r, dc, f) :
                t \in {"None", "View", "Uri"}, mt \in {"None", "image/png", "image/x-unknown"},
                r \in BOOLEAN, dc \in BOOLEAN,
                f \in {"None", "Linear", "NearestMipmapLinear"} } :
        m.texture = "View" => m.mime_type # "None" }

\* the file opens and decodes load_material does for the texture, in order,
\* up to the one that panics
TextureIo(m) ==
    CASE m.texture = "View" ->
            IF m.mime_type \notin {"image/png"} THEN <<>> ELSE <<"decode">>
      [] m.texture = "Uri" ->
            IF ~ConvertSampler(m).ok THEN <<>>
            ELSE IF m.mime_type # "None"
            THEN IF ~m.readable \/ m.mime_type \notin {"image/png"}
                 THEN <<"open">>
                 ELSE <<"open", "decode">>
            ELSE IF ~m.readable THEN <<"open">> ELSE <<"open", "decode">>
      [] OTHER -> <<>>

\* VulkanInstance::allocate_descriptor_sets(.., count)
AllocateDescriptorSets(count) == [i \in 1..count |-> [set |-> i]]

\* vk::WriteDescriptorSet { dst_set, dst_binding, descriptor_type, .. } and the
\* uniform buffer its p_buffer_info names (0: it has a p_image_info)
WriteDescriptorSet(dst_set, dst_binding, descriptor_type, buffer) ==
    [dst_set |-> dst_set, dst_binding |-> dst_binding, descriptor_type |-> descriptor_type,
     buffer |-> buffer]

\* desc_sets of iteration i of write_sets' loop: dst_set is descriptor_sets[0]
\* in all four writes; buffer_info is not a name of the function
DescSets(sets, buffers, i, buffer_info) ==
    <<WriteDescriptorSet(sets[1].set, 0, "UNIFORM_BUFFER", buffer_info),
      WriteDescriptorSet(sets[1].set, 0, "COMBINED_IMAGE_SAMPLER", 0),
      WriteDescriptorSet(sets[1].set, 1, "UNIFORM_BUFFER", buffers[i].buffer),
      WriteDescriptorSet(sets[1].set, 2, "UNIFORM_BUFFER", buffers[i].buffer)>>

\* load_material is called with a material and an instance
TInit ==
    /\ tpc = "texture"
    /\ material \in Materials
    /\ diffuse_texture = NoImage
    /\ io = <<>>
    /\ uniform_buffers = <<>>
    /\ descriptor_sets = <<>>
    /\ updates = <<>>

\* the loader as load_material sees it: an instance with its swapchain images
TInstance ==
    /\ lpc = "idle"
    /\ instance \in {[swapchain_images |-> f] : f \in 1..MaxFrames}
    /\ parse = "ok"
    /\ doc = NoDocument
    /\ todo = <<>>
    /\ cur = 0
    /\ meshes = <<>>
    /\ primitive_len = 0
    /\ worker = <<>>
    /\ chan = <<>>
    /\ received = 0

\* let diffuse_texture = if let Some(texture) = pbr.base_color_texture() ..
MaterialTexture ==
    /\ tpc = "texture"
    /\ io' = TextureIo(material)
    /\ IF DiffuseTexture(material).ok
       THEN /\ diffuse_texture' = DiffuseTexture(material).value
            /\ tpc' = "uniforms"
       ELSE /\ diffuse_texture' = diffuse_texture
            /\ tpc' = "panicked"
    /\ UNCHANGED <<material, uniform_buffers, descriptor_sets, updates>>
    /\ UNCHANGED <<wvars, mvars, pvars>>

\* let mut uniform_buffers = Self::create_uniform_buffers(instance, &binding)
MaterialUniforms ==
    /\ tpc = "uniforms"
    /\ uniform_buffers' = CreateUniformBuffers(instance)
    /\ tpc' = "allocate"
    /\ UNCHANGED <<material, diffuse_texture, io, descriptor_sets, updates>>
    /\ UNCHANGED <<wvars, mvars, pvars>>

\* write_sets: let descriptor_sets = allocate_descriptor_sets(.., len)
MaterialAllocate ==
    /\ tpc = "allocate"
    /\ descriptor_sets' = AllocateDescriptorSets(Len(uniform_buffers))
    /\ tpc' = "write"
    /\ UNCHANGED <<material, diffuse_texture, io, uniform_buffers, updates>>
    /\ UNCHANGED <<wvars, mvars, pvars>>

\* write_sets: one iteration of for (i, _) in descriptor_sets.iter().enumerate():
\* build desc_sets and update_descriptor_sets with it
MaterialWrite ==
    /\ tpc = "write"
    /\ Len(updates) < Len(descriptor_sets)
    /\ \E buffer_info \in DOMAIN uniform_buffers :
        updates' = Append(updates, DescSets(descriptor_sets, uniform_buffers,
                                            Len(updates) + 1, buffer_info))
    /\ UNCHANGED <<tpc, material, diffuse_texture, io, uniform_buffers, descriptor_sets>>
    /\ UNCHANGED <<wvars, mvars, pvars>>

\* write_sets returns descriptor_sets, and load_material returns them
MaterialReturn ==
    /\ tpc = "write"
    /\ Len(updates) >= Len(descriptor_sets)
    /\ tpc' = "returned"
    /\ UNCHANGED <<material, diffuse_texture, io, uniform_buffers, descriptor_sets, updates>>
    /\ UNCHANGED <<wvars, mvars, pvars>>

MaterialInit == WIdle /\ TInstance /\ PIdle /\ TInit

MaterialNext ==
    \/ MaterialTexture
    \/ MaterialUniforms
    \/ MaterialAllocate
    \/ MaterialWrite
    \/ MaterialReturn

MaterialSpec == MaterialInit /\ [][MaterialNext]_vars

(***************************************************************************)
(* The window backend.                                                     *)
(***************************************************************************)

Program ==
    \/ Connect
    \/ BindWmBase
    \/ BindCompositor
    \/ BindSeat
    \/ InitXdgSurface
    \/ InitialCommit
    \/ BindActivation
    \/ Close
    \/ Drop
    \/ PollEnter
    \/ PollCheck
    \/ PollDispatch
    \/ PollDeliver
    \/ PollDraw

Next ==
    \/ Connect
    \/ BindWmBase
    \/ BindCompositor
    \/ BindSeat
    \/ InitXdgSurface
    \/ InitialCommit
    \/ BindActivation
    \/ Close
    \/ Drop
    \/ PollEnter
    \/ PollCheck
    \/ PollDispatch
    \/ PollDeliver
    \/ PollDraw
    \/ EmitConfigure
    \/ EmitClose
    \/ EmitConfigureBounds
    \/ EmitToplevelConfigure
    \/ EmitPing
    \/ EmitCapabilities
    \/ EmitKey
    \/ HandlerPanic
    \/ TransportFail

Init == WInit /\ LIdle

Spec == Init /\ [][Next]_vars

\* the poll loop and the rest of the program keep running: a thread that can
\* take its next step takes it
FairSpec == Spec /\ WF_vars(Program)

(***************************************************************************)
(* The window backend's properties.                                        *)
(***************************************************************************)
\* request i is a commit that carries a buffer: one was attached to the
\* surface since the commit before it
CommitCarriesBuffer(i) ==
    /\ sent[i].op = "commit"
    /\ \E j \in 1..(i - 1) :
          /\ sent[j].op = "attach"
          /\ \A k \in (j + 1)..(i - 1) : sent[k].op # "commit"

BufferContent(i) == sent[i].op = "attach" \/ CommitCarriesBuffer(i)

AckBefore(i) == \E j \in 1..(i - 1) : sent[j].op = "ack_configure"

\* C1: no attach and no commit carrying a buffer is sent before an
\* ack_configure has been sent, and buffer content has only been sent in
\* states where configured is true.
C1_NoBufferBeforeAck ==
    \A i \in 1..Len(sent) :
        BufferContent(i) => (AckBefore(i) /\ state.configured)

\* the buffer-less initial commit was sent first and a configure acknowledged
\* after it
C1_Witness ==
    /\ state.configured
    /\ \E i, j \in 1..Len(sent) :
          /\ i < j
          /\ sent[i].op = "commit" /\ ~CommitCarriesBuffer(i)
          /\ sent[j].op = "ack_configure"

\* the requests of a sequence that are made on the surface and its xdg_surface
RECURSIVE SurfaceMsgs(_)
SurfaceMsgs(msgs) ==
    IF msgs = <<>> THEN <<>>
    ELSE (IF Head(msgs).op \in {"ack_configure", "attach", "commit"}
          THEN <<Head(msgs)>> ELSE <<>>) \o SurfaceMsgs(Tail(msgs))

\* what the claim expects of a batch of events: per Configure(serial) one
\* ack_configure(serial), then attach and commit when a buffer is pending
RECURSIVE ExpectedSurfaceMsgs(_, _)
ExpectedSurfaceMsgs(events, buffer) ==
    IF events = <<>> THEN <<>>
    ELSE (IF Head(events).kind = "Configure"
          THEN <<Msg("ack_configure", "xdg_surface", Head(events).a)>>
               \o (IF buffer # None
                   THEN <<Msg("attach", "wl_surface", 0), Msg("commit", "wl_surface", 0)>>
                   ELSE <<>>)
          ELSE <<>>) \o ExpectedSurfaceMsgs(Tail(events), buffer)

\* C2: a dispatch answers every Configure(s) of its batch with exactly one
\* ack_configure(s), sent first, followed by attach and commit if and only if
\* a buffer is pending, and makes no other request on the surface.
C2_AckThenCommitIfBuffer ==
    [][(wpc = "dispatch" /\ wpc' = "flush") =>
          SurfaceMsgs(SubSeq(sent', Len(sent) + 1, Len(sent')))
              = ExpectedSurfaceMsgs(inq, state.buffer)]_vars

\* two configures were dispatched and acknowledged, the last of them with the
\* largest serial, and no buffer was pending: the initial commit is the only one
C2_Witness ==
    /\ wpc = "flush"
    /\ Len(sent) >= 2
    /\ sent[Len(sent)] = Msg("ack_configure", "xdg_surface", MaxSerial)
    /\ sent[Len(sent) - 1].op = "ack_configure"
    /\ state.buffer = None
    /\ Cardinality({i \in 1..Len(sent) : sent[i].op = "commit"}) = 1

\* a Close has been dispatched in the running poll loop
CloseQueued == wpc = "flush" /\ \E i \in 1..Len(queued) : queued[i].kind = "Close"

\* poll has left its loop, by the loop condition or by a panic
LoopEnded == wpc \in {"poll_exit", "released", "unwinding", "panicked", "aborted"}

\* C3: once the compositor's Close has been dispatched in the running poll
\* loop, running becomes false and the loop terminates, without further input.
C3_CloseEndsLoop == CloseQueued ~> (LoopEnded /\ ~state.running)

\* the events' arrival numbers increase along the sequence
IsArrivalOrder(q) == \A i, j \in 1..Len(q) : i < j => q[i].src < q[j].src

\* C4: in a poll iteration the events dispatch queued are handed to the
\* handler once each, in the order queued (arrival order), then one Draw;
\* nothing is handed over after the Draw and pending_events ends empty.
C4_DeliveredInOrderThenDraw ==
    /\ wpc = "dispatch" => (state.pending_events = <<>> /\ delivered = <<>>)
    /\ wpc = "flush" =>
          /\ delivered \o state.pending_events = queued
          /\ IsArrivalOrder(queued)
    /\ (wpc = "poll_check" /\ delivered # <<>>) =>
          /\ delivered = queued \o <<Draw>>
          /\ state.pending_events = <<>>

\* an iteration has handed two queued events and then the Draw to the handler
C4_Witness ==
    /\ wpc = "poll_check"
    /\ Len(delivered) = 3
    /\ delivered[1].kind = "Close" /\ delivered[2].kind = "Close"
    /\ delivered[1].src < delivered[2].src
    /\ delivered[3] = Draw

(***************************************************************************)
(* The loader's properties.                                                *)
(***************************************************************************)
RECURSIVE PrimitiveCount(_, _), PrimitiveCountOf(_, _)
\* the primitives of the mesh of node n and of the nodes below it
PrimitiveCount(d, n) ==
    (IF d.node_mesh[n] = 0 THEN 0 ELSE Len(d.meshes[d.node_mesh[n]]))
        + PrimitiveCountOf(d, d.children[n])
\* the same, summed over a list of nodes
PrimitiveCountOf(d, nodes) ==
    IF nodes = <<>> THEN 0
    ELSE PrimitiveCount(d, Head(nodes)) + PrimitiveCountOf(d, Tail(nodes))

\* the sum over the scenes, over their root nodes, of the primitives reached
RECURSIVE ExpectedMeshCount(_, _)
ExpectedMeshCount(d, scenes) ==
    IF scenes = <<>> THEN 0
    ELSE PrimitiveCountOf(d, Head(scenes)) + ExpectedMeshCount(d, Tail(scenes))

RECURSIVE ReachedFrom(_, _)
\* the nodes reached by descending from a set of nodes
ReachedFrom(d, nodes) ==
    IF nodes = {} THEN {}
    ELSE nodes \cup ReachedFrom(d, UNION {{d.children[n][i] : i \in DOMAIN d.children[n]} :
                                             n \in nodes})

\* a primitive that has what load_material and load_primitive need
ValidPrimitive(p) ==
    /\ p.positions.some
    /\ p.indices.some
    /\ p.normals.some => Len(p.normals.v) <= Len(p.positions.v)
    /\ p.tex_coords.some => Len(p.tex_coords.v) <= Len(p.positions.v)
    /\ p.material.texture # "None" =>
        /\ p.material.readable
        /\ p.material.decodable
        /\ p.material.mime_type \in {"None", "image/png"}
        /\ p.material.texture = "View" => p.material.mime_type # "None"
        /\ p.material.texture = "Uri" => p.material.min_filter # "NearestMipmapLinear"

\* a document whose every reached mesh has valid primitives only
ValidDocument(d) ==
    \A n \in ReachedFrom(d, UNION {{d.scenes[s][i] : i \in DOMAIN d.scenes[s]} :
                                     s \in DOMAIN d.scenes}) :
        d.node_mesh[n] # 0 =>
            \A i \in DOMAIN d.meshes[d.node_mesh[n]] : ValidPrimitive(d.meshes[d.node_mesh[n]][i])

\* C5: for every valid document load goes on until it returns, it does not
\* panic, and the Model it returns has as many meshes as the sum, over the
\* scenes, over the nodes reached by descending from their root nodes (a node
\* counted every time it is reached), of the node's mesh's primitive count
C5_MeshCountIsPrimitiveSum ==
    /\ lpc = "returned" => Len(meshes) = ExpectedMeshCount(doc, doc.scenes)
    /\ (parse = "ok" /\ lpc # "idle" /\ ValidDocument(doc)) =>
        /\ lpc # "panicked"
        /\ lpc # "returned" => ENABLED LoaderNext

\* load has returned for 2 scenes, the first with one node that has a mesh of
\* 2 primitives, the second empty: the Model has 2 meshes
C5_Witness ==
    /\ lpc = "returned"
    /\ Len(doc.scenes) = 2
    /\ Len(doc.scenes[1]) = 1
    /\ doc.scenes[2] = <<>>
    /\ doc.children[doc.scenes[1][1]] = <<>>
    /\ doc.node_mesh[doc.scenes[1][1]] # 0
    /\ Len(doc.meshes[doc.node_mesh[doc.scenes[1][1]]]) = 2
    /\ Len(meshes) = 2

\* load_mesh_multithreaded is running, or has ended, for the node cur
InMeshCall == lpc \in {"scope", "recv", "children"} \/ (lpc = "panicked" /\ cur # 0)
MeshCallEnded == lpc = "children" \/ (lpc = "panicked" /\ cur # 0)

\* C6: for a mesh of N primitives the channel's capacity is N, no worker that
\* is about to send finds the channel full, a thread of the call can always
\* take a step until the call ends, and when the call has ended the assembling
\* thread has received N times
C6_ChannelSizedForAll ==
    InMeshCall =>
        /\ ChannelCapacity(primitive_len) = Len(Primitives(doc, cur))
        /\ \A i \in DOMAIN worker : worker[i] = "sending" => Len(chan) < ChannelCapacity(primitive_len)
        /\ ~MeshCallEnded => ENABLED LoaderNext
        /\ MeshCallEnded => received = Len(Primitives(doc, cur))

\* the number of entries of seq that equal x
CountIn(seq, x) == Cardinality({i \in DOMAIN seq : seq[i] = x})

\* the same entries, each as many times
SameMultiset(s, t) ==
    /\ Len(s) = Len(t)
    /\ \A i \in DOMAIN s : CountIn(s, s[i]) = CountIn(t, s[i])

\* the last n entries of seq
LastOf(seq, n) == SubSeq(seq, Len(seq) - n + 1, Len(seq))

\* the result of each primitive of the mesh of node n
ResultsOf(d, n) ==
    [i \in DOMAIN Primitives(d, n) |->
        LoadPrimitive(LoadMaterial(VulkanInstance, Primitives(d, n)[i].material).value,
                      d.node_mesh[n], Primitives(d, n)[i]).value]

\* the results of the workers that have sent
SentResults(d, n, w) ==
    LET sent_by == {i \in DOMAIN w : w[i] = "done"}
    IN  [k \in 1..Cardinality(sent_by) |-> ResultsOf(d, n)[Ascending(sent_by)[k]]]

\* C7: during load_mesh_multithreaded the meshes appended so far together with
\* those in the channel are, as a multiset, the results of the workers that
\* have sent; when the call returns (all workers succeeded) the channel is
\* empty and the appended meshes are, as a multiset, the results of the
\* mesh's primitives, one per primitive
C7_FanInLosesNothing ==
    /\ lpc \in {"scope", "recv", "children"} =>
        SameMultiset(LastOf(meshes, received) \o chan, SentResults(doc, cur, worker))
    /\ lpc = "children" =>
        /\ chan = <<>>
        /\ received = Len(Primitives(doc, cur))
        /\ SameMultiset(LastOf(meshes, received), ResultsOf(doc, cur))

\* the call has returned for a mesh of 2 primitives whose results came in
\* another order than the primitives'
C7_Witness ==
    /\ lpc = "children"
    /\ Len(Primitives(doc, cur)) = 2
    /\ received = 2
    /\ LastOf(meshes, 2) # ResultsOf(doc, cur)
    /\ SameMultiset(LastOf(meshes, 2), ResultsOf(doc, cur))

\* what load gave its caller
LoadResult ==
    CASE lpc = "returned" -> "Ok"
      [] lpc = "panicked" -> "panic"
      [] OTHER -> "none"

\* the parser failed, or a primitive load failed
LoadFailed == parse # "ok" \/ \E i \in DOMAIN worker : worker[i] = "panicked"

\* C8: when the parser or a primitive load has failed, load ends with an Err
\* for its caller, and it does not return Ok
C8_FailureIsErrResult ==
    /\ (LoadFailed /\ lpc \in {"returned", "panicked"}) => LoadResult = "Err"
    /\ LoadFailed => LoadResult # "Ok"

\* what load_primitive gave its caller
PrimitiveResult ==
    CASE ppc = "returned" -> "Mesh3D"
      [] ppc = "panicked" -> loaded.panic
      [] OTHER -> "none"

\* C9: load_primitive of a primitive without a position accessor, or without
\* an index accessor, ends with MissingAttributeError and gives no mesh
C9_MissingAttributeError ==
    (ppc \in {"returned", "panicked"} /\ (~primitive.positions.some \/ ~primitive.indices.some)) =>
        /\ PrimitiveResult = "MissingAttributeError"
        /\ ~loaded.ok

\* C10: for a primitive with N positions and neither normals nor texture
\* coordinates, once the overlays are done there are N vertices, vertex i has
\* position i, and every normal and texture coordinate is all zero; the
\* Mesh3D returned has these vertices
C10_PositionsOnlyVertices ==
    (/\ primitive.positions.some
     /\ ~primitive.normals.some
     /\ ~primitive.tex_coords.some
     /\ ppc \in {"indices", "returned"}) =>
        /\ Len(vertices) = Len(primitive.positions.v)
        /\ \A i \in DOMAIN vertices :
            /\ vertices[i].position = primitive.positions.v[i]
            /\ vertices[i].normal = <<0, 0, 0>>
            /\ vertices[i].tex_coord = <<0, 0>>
        /\ ppc = "returned" => (loaded.ok /\ loaded.value.vertices = vertices)

\* load_primitive has returned for 2 positions and no normals or texture
\* coordinates
C10_Witness ==
    /\ ppc = "returned"
    /\ primitive.positions.some
    /\ Len(primitive.positions.v) = 2
    /\ ~primitive.normals.some
    /\ ~primitive.tex_coords.some
    /\ Len(loaded.value.vertices) = 2

(***************************************************************************)
(* The properties of load_material.                                        *)
(***************************************************************************)
\* C11: for a material without a base colour texture load_material does not
\* panic, the diffuse texture is the image made from the colour
\* (255, 255, 255, 255) with extent 128 by 128, and no file was opened and no
\* image decoded
C11_PlaceholderWhenUntextured ==
    (material.texture = "None" /\ tpc \notin {"idle", "texture"}) =>
        /\ tpc # "panicked"
        /\ diffuse_texture.source = "color"
        /\ diffuse_texture.rgba = <<255, 255, 255, 255>>
        /\ diffuse_texture.extent = <<128, 128>>
        /\ io = <<>>

\* load_material has returned for a material without a texture
C11_Witness ==
    /\ tpc = "returned"
    /\ material.texture = "None"
    /\ diffuse_texture.source = "color"
    /\ io = <<>>

\* C12: once create_uniform_buffers has returned there are as many uniform
\* buffers as swapchain images, and once the descriptor sets are allocated
\* there are as many of them
C12_OnePerSwapchainImage ==
    /\ tpc \in {"allocate", "write", "returned"} =>
        Len(uniform_buffers) = instance.swapchain_images
    /\ tpc \in {"write", "returned"} =>
        Len(descriptor_sets) = instance.swapchain_images

\* load_material has returned with 3 swapchain images: 3 uniform buffers and
\* 3 descriptor sets
C12_Witness ==
    /\ tpc = "returned"
    /\ instance.swapchain_images = 3
    /\ Len(uniform_buffers) = 3
    /\ Len(descriptor_sets) = 3

\* the batches whose writes have descriptor set number set as destination
BatchesTo(set) ==
    {k \in DOMAIN updates : \E w \in DOMAIN updates[k] : updates[k][w].dst_set = set}

\* C13: when write_sets has returned, each descriptor set i is the destination
\* of one batch, the batch of iteration i; the batch writes uniform buffers to
\* its bindings 0, 1 and 2 and an image with sampler, and the uniform buffer
\* it names is buffer i
C13_EverySetWrittenOnce ==
    tpc = "returned" =>
        \A i \in DOMAIN descriptor_sets :
            /\ BatchesTo(descriptor_sets[i].set) = {i}
            /\ \A w \in DOMAIN updates[i] :
                /\ updates[i][w].dst_set = descriptor_sets[i].set
                /\ updates[i][w].buffer \in {0, uniform_buffers[i].buffer}
            /\ \A b \in {0, 1, 2} : \E w \in DOMAIN updates[i] :
                /\ updates[i][w].dst_binding = b
                /\ updates[i][w].descriptor_type = "UNIFORM_BUFFER"
            /\ \E w \in DOMAIN updates[i] :
                updates[i][w].descriptor_type = "COMBINED_IMAGE_SAMPLER"

(***************************************************************************)
(* More properties of the window backend.                                  *)
(***************************************************************************)
\* the globals create_window cannot do without
RequiredGlobals == {"wl_compositor", "xdg_wm_base", "wl_seat"}

\* create_window panicked: the program panicked before the last bind
CreateWindowPanicked == wpc = "panicked" /\ ~HasBound("xdg_activation_v1")

\* C14: with a connection and the required globals advertised, create_window
\* does not fail, whichever optional globals are advertised
C14_OptionalGlobalsAreOptional ==
    (conn_ok /\ RequiredGlobals \subseteq globals) => ~CreateWindowPanicked

\* C15: close, or the close of drop, of a window whose owner has closed it
\* already (running is false) changes nothing of State, sends and flushes
\* nothing, and does not panic
C15_CloseIsIdempotent ==
    [][(wpc = "created" /\ ~state.running /\ (Close \/ Drop)) =>
          /\ state' = state
          /\ sent' = sent
          /\ flushed' = flushed
          /\ wpc' \in {"created", "released"}]_vars

(***************************************************************************)
(* More properties of the loader.                                          *)
(***************************************************************************)
\* every worker of the scope has sent its result or panicked
WorkersCompleted == \A i \in DOMAIN worker : worker[i] \in {"done", "panicked"}

\* C16: a step of load_mesh_multithreaded that receives, that appends to the
\* mesh list, or that ends the scope or the call, is taken only when every
\* worker spawned for the mesh has sent its result or panicked; and in the
\* receive loop and after the call no worker is running
C16_WorkersCompleteBeforeReceive ==
    [][/\ (\/ received' > received
           \/ meshes' # meshes
           \/ (lpc = "scope" /\ lpc' # "scope")
           \/ (lpc = "recv" /\ lpc' # "recv")) =>
            (WorkersCompleted /\ worker' = worker)
       /\ lpc' \in {"recv", "children", "traverse", "returned", "panicked"} =>
            \A i \in DOMAIN worker' : worker'[i] \in {"done", "panicked"}]_vars

\* the assembling thread has received the first of 2 results, both workers
\* having sent
C16_Witness ==
    /\ lpc = "recv"
    /\ received = 1
    /\ Len(worker) = 2
    /\ WorkersCompleted
    /\ Len(chan) = 1

\* C17: the meshes the receive loop appends, followed by what is still in the
\* channel, are at every step of the loop the channel's content at the loop's
\* start, which is the results in the order the workers sent them; nothing
\* puts them in the primitives' declaration order
C17_OutputInSendOrder ==
    [][lpc = "recv" =>
          LastOf(meshes', received') \o chan' = LastOf(meshes, received) \o chan]_vars

\* a mesh of 2 primitives whose call has returned with the second primitive's
\* mesh appended before the first's
C17_Witness ==
    /\ lpc = "children"
    /\ Len(Primitives(doc, cur)) = 2
    /\ ResultsOf(doc, cur)[1] # ResultsOf(doc, cur)[2]
    /\ LastOf(meshes, 2) = <<ResultsOf(doc, cur)[2], ResultsOf(doc, cur)[1]>>

RECURSIVE PreOrderNames(_, _), PreOrderNamesOf(_, _)
\* the names of the meshes of node n and of the nodes below it, each as many
\* times as the mesh has primitives: the node first, then its children in order
PreOrderNames(d, n) ==
    (IF d.node_mesh[n] = 0 THEN <<>>
     ELSE [i \in 1..Len(d.meshes[d.node_mesh[n]]) |-> d.node_mesh[n]])
        \o PreOrderNamesOf(d, d.children[n])
\* the same for a list of nodes, in order
PreOrderNamesOf(d, nodes) ==
    IF nodes = <<>> THEN <<>>
    ELSE PreOrderNames(d, Head(nodes)) \o PreOrderNamesOf(d, Tail(nodes))

\* the same for the scenes, in order
RECURSIVE SceneOrderNames(_, _)
SceneOrderNames(d, scenes) ==
    IF scenes = <<>> THEN <<>>
    ELSE PreOrderNamesOf(d, Head(scenes)) \o SceneOrderNames(d, Tail(scenes))

\* the names of the meshes collected
MeshNames == [i \in DOMAIN meshes |-> meshes[i].name]

\* C18: the meshes collected are at every moment, by the mesh they come from,
\* a prefix of the meshes of the nodes in traversal order (scenes in document
\* order, root nodes in order, a node before its children, children in
\* order), and all of them when load returns, whatever the interleaving
C18_TraversalOrderKept ==
    /\ Len(MeshNames) <= Len(SceneOrderNames(doc, doc.scenes))
    /\ MeshNames = SubSeq(SceneOrderNames(doc, doc.scenes), 1, Len(MeshNames))
    /\ lpc = "returned" => MeshNames = SceneOrderNames(doc, doc.scenes)

\* load has returned for a node with a mesh and two children with another
\* mesh and the same mesh: the parent's meshes come first, then each child's
C18_Witness ==
    /\ lpc = "returned"
    /\ doc.scenes[1] = <<1>>
    /\ doc.children[1] = <<2, 3>>
    /\ doc.node_mesh = <<1, 2, 1>>
    /\ Len(doc.meshes[1]) >= 2
    /\ MeshNames[1] = 1
    /\ MeshNames[Len(doc.meshes[1]) + 1] = 2
    /\ MeshNames[Len(doc.meshes[1]) + 2] = 1

\* C19: the handler is called (with queued events or Draw) only once the
\* surface is configured: the poll loop does not run while configured is false
C19_NoRunningBeforeConfigured == delivered # <<>> => state.configured

\* an ack_configure is among the requests msgs
AckSent(msgs) == \E i \in 1..Len(msgs) : msgs[i].op = "ack_configure"

\* a Configure is among the events
ConfigureIn(events) == \E i \in 1..Len(events) : events[i].kind = "Configure"

\* C20: configured is false as create_window returns; it becomes true only in
\* a dispatch that handles a Configure and that has sent an ack_configure with
\* the serial of a Configure it handled; once true it stays true; and when it
\* is true an ack_configure has been sent
C20_ConfiguredOnlyAfterAck ==
    [][/\ wpc' = "created" => ~state'.configured
       /\ state.configured => state'.configured
       /\ (~state.configured /\ state'.configured) =>
            /\ wpc = "dispatch"
            /\ ConfigureIn(inq)
            /\ \E i \in (Len(sent) + 1)..Len(sent') :
                /\ sent'[i].op = "ack_configure"
                /\ \E k \in 1..Len(inq) :
                    inq[k].kind = "Configure" /\ inq[k].a = sent'[i].arg
       /\ state'.configured => AckSent(sent')]_vars

\* a dispatch has handled a Configure: configured is true and the ack is sent
C20_Witness ==
    /\ wpc = "flush"
    /\ state.configured
    /\ AckSent(sent)

\* the normalized event an input event of the protocol is to become
NormalizedKind(kind) ==
    CASE kind = "Key" -> "Key"
      [] kind = "ConfigureBounds" -> "Resize"
      [] kind = "Close" -> "Close"
      [] OTHER -> "none"

\* C21: a dispatch queues, for every key event, resize-bounds event and close
\* request it handles, the normalized event made from it (Key, Resize, Close)
C21_InputEventsNormalized ==
    [][(wpc = "dispatch" /\ wpc' = "flush") =>
          \A k \in 1..Len(inq) :
              inq[k].kind \in {"Key", "ConfigureBounds", "Close"} =>
                  \E j \in 1..Len(queued') :
                      /\ queued'[j].src = inq[k].n
                      /\ queued'[j].kind = NormalizedKind(inq[k].kind)]_vars

\* the window was built, and the program is over: the connection and the
\* event queue are released, or the process is gone
WindowBuilt == HasBound("xdg_activation_v1")
BackendGone == WindowBuilt /\ wpc \in {"released", "panicked", "aborted"}

\* C22: when the connection and the event queue of a window are gone, every
\* request issued has been flushed and running is false
C22_FlushedAndClosedBeforeRelease ==
    BackendGone => (flushed = Len(sent) /\ ~state.running)

\* C23: a dispatch_pending that fails in the poll loop ends the loop with
\* running false, and poll returns
C23_DispatchFailureClosesGracefully ==
    [][(wpc = "dispatch" /\ ~conn_ok /\ wpc' # wpc) =>
          (wpc' = "poll_exit" /\ ~state'.running)]_vars

\* the requests op of a sequence of requests, and the events that satisfy
\* a test, in order
RequestsOf(op, msgs) == SelectSeq(msgs, LAMBDA m : m.op = op)
KeyboardCapabilities(events) ==
    SelectSeq(events, LAMBDA e : e.kind = "Capabilities" /\ e.a = 1)
\* a step of poll that dispatched the pending events
Dispatched == wpc = "dispatch" /\ wpc' = "flush"

\* C24: get_keyboard is sent only in reaction to a Capabilities event with
\* the Keyboard capability: a dispatch sends one per such event it handles,
\* none for a Capabilities event without it, and no other step sends one
C24_KeyboardOnlyAfterCapability ==
    [][Len(RequestsOf("get_keyboard", sent')) - Len(RequestsOf("get_keyboard", sent))
          = IF Dispatched THEN Len(KeyboardCapabilities(inq)) ELSE 0]_vars

\* a dispatch has handled a Capabilities event with the keyboard and the
\* one get_keyboard it caused is on the connection
C24_Witness ==
    /\ wpc = "flush"
    /\ Len(RequestsOf("get_keyboard", sent)) = 1
    /\ sent[Len(sent)].op = "get_keyboard"

\* the serials of the Ping events of a sequence of events, in order, and the
\* serials of the pong requests of a sequence of requests
RECURSIVE PingSerials(_), PongSerials(_)
PingSerials(events) ==
    IF events = <<>> THEN <<>>
    ELSE (IF Head(events).kind = "Ping" THEN <<Head(events).a>> ELSE <<>>)
            \o PingSerials(Tail(events))
PongSerials(msgs) ==
    IF msgs = <<>> THEN <<>>
    ELSE (IF Head(msgs).op = "pong" THEN <<Head(msgs).arg>> ELSE <<>>)
            \o PongSerials(Tail(msgs))
NotPings(events) == SelectSeq(events, LAMBDA e : e.kind # "Ping")

\* C27: a dispatch answers every Ping it handles with one pong of the same
\* serial (the pongs it sends carry the serials of its Pings, one each, in
\* order), the Pings change no field of the State (the State after the
\* dispatch is the one the other events alone give), and no other step
\* sends a pong
C27_PingAnsweredWithSameSerial ==
    [][/\ Dispatched =>
            /\ PongSerials(sent') = PongSerials(sent) \o PingSerials(inq)
            /\ state' = DispatchPending(state, <<>>, NotPings(inq)).state
       /\ ~Dispatched => PongSerials(sent') = PongSerials(sent)]_vars

\* one dispatch has answered two Pings, of serial 2 and then of serial 1
C27_Witness ==
    /\ wpc = "flush"
    /\ emitted = 2
    /\ PongSerials(sent) = <<2, 1>>

\* the ESC key is among the events
HasEsc(events) == \E k \in 1..Len(events) : events[k].kind = "Key" /\ events[k].a = 1
\* the handler is called in the step
HandlerCalled == Len(delivered') > Len(delivered)

\* C26: a dispatch that handles a Key event with key 1, pressed or released,
\* leaves running false; the iteration then hands the handler every queued
\* event and one Draw, the loop exits at its next test without a dispatch,
\* and the handler is not called again
C26_EscStopsAfterFinalDraw ==
    [][/\ (Dispatched /\ HasEsc(inq)) => ~state'.running
       /\ (wpc = "flush" /\ ~state.running /\ wpc' = "poll_check") =>
              delivered' = queued \o <<Draw>>
       /\ (wpc = "poll_check" /\ ~state.running) =>
              (wpc' = "poll_exit" /\ ~HandlerCalled)
       /\ wpc \in {"poll_exit", "released"} =>
              (wpc' \notin {"poll_check", "dispatch", "flush"} /\ ~HandlerCalled)]_vars

\* the iteration that dispatched ESC has handed a queued Close and the Draw
\* to the handler, and the loop is at its test with running false
C26_Witness ==
    /\ wpc = "poll_check"
    /\ ~state.running
    /\ Len(queued) >= 1
    /\ delivered = queued \o <<Draw>>

\* the number of entries an accessor gives: none when it is absent
AccessorLen(acc) == IF acc.some THEN Len(acc.v) ELSE 0

\* C25: for a primitive with N positions, M <= N normals and K <= N texture
\* coordinates, once the overlays are done there are N vertices, vertex i has
\* position i, normal i if it is one of the first M and the zero normal
\* otherwise, texture coordinate i if it is one of the first K and the zero
\* texture coordinate otherwise; the Mesh3D returned has these vertices
C25_OverlaysByIndex ==
    (/\ primitive.positions.some
     /\ AccessorLen(primitive.normals) <= Len(primitive.positions.v)
     /\ AccessorLen(primitive.tex_coords) <= Len(primitive.positions.v)
     /\ ppc \in {"indices", "returned"}) =>
        /\ Len(vertices) = Len(primitive.positions.v)
        /\ \A i \in 1..Len(primitive.positions.v) :
            /\ vertices[i].position = primitive.positions.v[i]
            /\ vertices[i].normal =
                  IF i <= AccessorLen(primitive.normals)
                  THEN primitive.normals.v[i] ELSE <<0, 0, 0>>
            /\ vertices[i].tex_coord =
                  IF i <= AccessorLen(primitive.tex_coords)
                  THEN primitive.tex_coords.v[i] ELSE <<0, 0>>
        /\ ppc = "returned" => (loaded.ok /\ loaded.value.vertices = vertices)

\* load_primitive has returned for 2 positions, 1 normal and 1 texture
\* coordinate: the first vertex has them, the second has the zero defaults
C25_Witness ==
    /\ ppc = "returned"
    /\ Len(primitive.positions.v) = 2
    /\ AccessorLen(primitive.normals) = 1
    /\ AccessorLen(primitive.tex_coords) = 1
    /\ loaded.value.vertices[1].normal = <<0, 0, 1>>
    /\ loaded.value.vertices[1].tex_coord = <<1, 1>>
    /\ loaded.value.vertices[2].normal = <<0, 0, 0>>
    /\ loaded.value.vertices[2].tex_coord = <<0, 0>>

RECURSIVE NodeVisits(_, _), NodeVisitsOf(_, _), SceneVisits(_, _)
\* the nodes load_node is to be called for from node n on, a node as many
\* times as it is reached
NodeVisits(d, n) == <<n>> \o NodeVisitsOf(d, d.children[n])
NodeVisitsOf(d, nodes) ==
    IF nodes = <<>> THEN <<>>
    ELSE NodeVisits(d, Head(nodes)) \o NodeVisitsOf(d, Tail(nodes))
SceneVisits(d, scenes) ==
    IF scenes = <<>> THEN <<>>
    ELSE NodeVisitsOf(d, Head(scenes)) \o SceneVisits(d, Tail(scenes))

\* the occurrences of mesh m: the visits of a node that has it
Occurrences(d, m) ==
    Cardinality({k \in DOMAIN SceneVisits(d, d.scenes) :
                    d.node_mesh[SceneVisits(d, d.scenes)[k]] = m})
\* the meshes collected that come from mesh m
MeshesOf(m) == Cardinality({i \in DOMAIN meshes : meshes[i].name = m})

\* C28: nothing is de-duplicated. The Model load returns has, for every mesh
\* of the document, one Mesh3D per primitive per occurrence of the mesh in
\* the traversal (a node listed by two scenes, or two nodes with the same
\* mesh, are two occurrences); every occurrence starts its own workers on an
\* empty channel, and every Mesh3D collected was built and sent by a worker
\* of that occurrence
C28_LoadedOncePerOccurrence ==
    [][/\ lpc' = "returned" =>
            \A m \in DOMAIN doc.meshes :
                MeshesOf(m)' = Occurrences(doc, m) * Len(doc.meshes[m])
       /\ (lpc = "traverse" /\ lpc' = "scope") =>
            /\ chan' = <<>>
            /\ DOMAIN worker' = DOMAIN doc.meshes[doc.node_mesh[cur']]
            /\ \A i \in DOMAIN worker' : worker'[i] = "unspawned"
       /\ Len(chan') > Len(chan) =>
            \E i \in DOMAIN worker : worker[i] = "sending" /\ worker'[i] = "done"
       /\ Len(meshes') > Len(meshes) =>
            (chan # <<>> /\ meshes' = Append(meshes, Head(chan)) /\ chan' = Tail(chan))]_vars

\* load has returned for a node that has a mesh of 2 primitives, is the root
\* of two scenes and has a child with the same mesh: 4 occurrences, 8 meshes
C28_Witness ==
    /\ lpc = "returned"
    /\ doc.scenes = <<(<<1>>), (<<1>>)>>
    /\ doc.children[1] = <<2>>
    /\ doc.node_mesh = <<1, 1, 0>>
    /\ Len(doc.meshes[1]) = 2
    /\ Occurrences(doc, 1) = 4
    /\ MeshesOf(1) = 8

====
